---- MODULE Spec2Model ----
(***************************************************************************)
(* A model of the geo_helpers library: the ring orientation normalizer     *)
(* (ccw.py), the hand-written GeoJSON validator                            *)
(* (geo_helper/geojson/geojson.py), the reprojection functions             *)
(* (projecting/reproject.py, projecting/project.py) and the area           *)
(* calculator (geo_helper/area.py).  Every function is an operator         *)
(* computed as the code computes it; a call of a public function is an     *)
(* action that stores what the call returned or raised.                    *)
(***************************************************************************)
EXTENDS Integers, Sequences, FiniteSets, TLC

VARIABLES
    polygon,      \* ccw.py: the shapely Polygon handed to force_polygon_ccw
    results,      \* ccw.py: the polygons returned by successive calls
    fn,           \* the function that was called
    arg,          \* its argument
    pc,           \* "start" before the call, "done" after it
    raised,       \* the exception that ended the call (NoError if none)
    ret,          \* the value returned (NoValue before the return)
    calls,        \* geojson.py: how often each validator was entered during the call
    log           \* projecting: the CRS lookups and transformer constructions
                  \* made during the call, in the order they were made

vars == <<polygon, results, fn, arg, pc, raised, ret, calls, log>>

ccw_vars == <<polygon, results>>
geojson_vars == <<fn, arg, pc, raised, ret, calls>>

(***************************************************************************)
(* Bounds of the model.                                                    *)
(***************************************************************************)
MaxHoles == 2
MaxCalls == 2
MaxPointLen == 3
MaxLineLen == 3
MaxLines == 2
MaxRings == 2
MaxPolygons == 2
MaxFeatures == 2
MaxMembers == 2

(***************************************************************************)
(* Generic helpers.                                                        *)
(***************************************************************************)
\* Python's seq[::-1]
Reversed(s) == [k \in 1..Len(s) |-> s[Len(s) + 1 - k]]

\* all sequences over S with length in lo..hi
SeqsOf(S, lo, hi) == UNION {[1..n -> S] : n \in lo..hi}

RECURSIVE SumTo(_, _)
SumTo(f, n) == IF n = 0 THEN 0 ELSE f[n] + SumTo(f, n - 1)

(***************************************************************************)
(* ccw.py                                                                  *)
(*                                                                         *)
(* A ring is the closed coordinate sequence of a shapely LinearRing (first *)
(* point = last point), a point is <<x, y>>.  A Polygon is its exterior    *)
(* ring and the sequence of its interior rings.                            *)
(***************************************************************************)
Polygon(shell, holes) == [exterior |-> shell, interiors |-> holes]

\* Twice the signed area of a closed ring (shoelace formula): > 0 for a
\* counter-clockwise ring, < 0 for a clockwise one.
signed_area2(ring) ==
    SumTo([k \in 1..(Len(ring) - 1) |->
              ring[k][1] * ring[k + 1][2] - ring[k + 1][1] * ring[k][2]],
          Len(ring) - 1)

\* LinearRing.is_ccw
is_ccw(ring) == signed_area2(ring) > 0

\* A plausible slip: the rebuilt polygon loses its holes.
mutant_force_exterior_ccw(p) ==
    IF is_ccw(p.exterior)
    THEN p
    ELSE Polygon(Reversed(p.exterior), <<>>)

_force_exterior_ccw(p) ==
    IF is_ccw(p.exterior)
    THEN p
    ELSE Polygon(Reversed(p.exterior), p.interiors)

_force_interior_cw(p) ==
    IF \A k \in 1..Len(p.interiors) : ~is_ccw(p.interiors[k])
    THEN p
    ELSE Polygon(p.exterior,
                 [k \in 1..Len(p.interiors) |-> Reversed(p.interiors[k])])

force_polygon_ccw(p) == _force_interior_cw(_force_exterior_ccw(p))

(***************************************************************************)
(* The polygons the calls are tried on: the exterior is a square, the      *)
(* holes are triangles inside it; every ring is taken in both directions   *)
(* and from every starting vertex.                                         *)
(***************************************************************************)
\* the closed ring through the vertices vs, in that order
Closed(vs) == Append(vs, vs[1])

\* the cyclic sequence vs started at its k-th element
Rotated(vs, k) == [j \in 1..Len(vs) |-> vs[((j + k - 2) % Len(vs)) + 1]]

Traversals(vs) ==
    {Closed(Rotated(vs, k)) : k \in 1..Len(vs)}
    \cup {Closed(Rotated(Reversed(vs), k)) : k \in 1..Len(vs)}

ExteriorRings == Traversals(<<<<0, 0>>, <<6, 0>>, <<6, 6>>, <<0, 6>>>>)

HoleRings ==
    Traversals(<<<<1, 1>>, <<2, 1>>, <<1, 2>>>>)
    \cup Traversals(<<<<4, 4>>, <<5, 4>>, <<4, 5>>>>)

Polygons ==
    {Polygon(e, h) : e \in ExteriorRings, h \in SeqsOf(HoleRings, 0, MaxHoles)}

(***************************************************************************)
(* Values of the GeoJSON variables while the ring normalizer is studied.   *)
(***************************************************************************)
NoError == [exc |-> "none", msg |-> ""]
NoValue == [t |-> "novalue"]
NoCalls == [feature |-> 0, geometry |-> 0]

GeojsonIdle ==
    /\ fn = "none"
    /\ arg = NoValue
    /\ pc = "idle"
    /\ raised = NoError
    /\ ret = NoValue
    /\ calls = NoCalls

\* no reprojection is running
ProjectIdle == log = <<>>

(***************************************************************************)
(* The ring normalizer as a state machine: force_polygon_ccw is called on  *)
(* a polygon, then on what it returned.                                    *)
(***************************************************************************)
InitCcw ==
    /\ polygon \in Polygons
    /\ results = <<>>
    /\ GeojsonIdle
    /\ ProjectIdle

\* the polygon the next call receives
Current == IF results = <<>> THEN polygon ELSE results[Len(results)]

ForcePolygonCcw ==
    /\ Len(results) < MaxCalls
    /\ results' = Append(results, force_polygon_ccw(Current))
    /\ UNCHANGED <<polygon, geojson_vars, log>>

NextCcw == ForcePolygonCcw

SpecCcw == InitCcw /\ [][NextCcw]_vars

(***************************************************************************)
(* Claims about the ring normalizer (checked under SpecCcw).               *)
(***************************************************************************)
\* the polygon the k-th call received
Received(k) == IF k = 1 THEN polygon ELSE results[k - 1]

\* how often point pt occurs in ring
Occurrences(ring, pt) == Cardinality({j \in 1..Len(ring) : ring[j] = pt})

PointsOf(ring) == {ring[j] : j \in 1..Len(ring)}

\* C1: for every polygon, whatever the winding of its holes, the polygon
\* force_polygon_ccw returns has a counter-clockwise exterior ring and only
\* clockwise interior rings.
C1_ExteriorCcwInteriorsCw ==
    \A k \in 1..Len(results) :
        /\ is_ccw(results[k].exterior)
        /\ \A h \in 1..Len(results[k].interiors) :
               ~is_ccw(results[k].interiors[h])

\* C2: force_polygon_ccw is idempotent: a second call on the returned polygon
\* returns that polygon again, coordinate for coordinate.
C2_Idempotent ==
    Len(results) >= 2 => results[2] = results[1]

\* C3: force_polygon_ccw only re-orders: the returned polygon has as many
\* rings as the received one, in the same order, and every ring holds the
\* same multiset of coordinates as the ring it comes from, its sequence
\* being that ring's sequence or its exact reverse.
C3_PureReordering ==
    \A k \in 1..Len(results) :
        LET q == Received(k)
            r == results[k]
            SameRing(a, b) ==
                /\ b = a \/ b = Reversed(a)
                /\ \A pt \in PointsOf(a) \cup PointsOf(b) :
                       Occurrences(a, pt) = Occurrences(b, pt)
        IN  /\ SameRing(q.exterior, r.exterior)
            /\ Len(r.interiors) = Len(q.interiors)
            /\ \A h \in 1..Len(q.interiors) :
                   SameRing(q.interiors[h], r.interiors[h])

\* a clockwise exterior with two holes, all of whose rings the call reversed
C3_Witness ==
    /\ Len(results) >= 1
    /\ Len(polygon.interiors) = 2
    /\ ~is_ccw(polygon.exterior)
    /\ results[1].exterior = Reversed(polygon.exterior)
    /\ \A h \in 1..2 : results[1].interiors[h] = Reversed(polygon.interiors[h])

(***************************************************************************)
(* geo_helper/geojson/geojson.py                                           *)
(*                                                                         *)
(* Parsed JSON.  A JSON object (a Python dict) is a record whose DOMAIN is *)
(* the set of keys present; a "type" member is a string.  Every other JSON *)
(* value is tagged with its Python type.                                   *)
(***************************************************************************)
JNum(n)  == [t |-> "number", v |-> n]
JStr(x)  == [t |-> "string", v |-> x]
JList(x) == [t |-> "list", v |-> x]
JNull    == [t |-> "null"]

\* dict.get(key): None when the key is absent.  A "type" member is compared
\* as a string, so its absence is the string no type ever equals.
Has(d, key) == key \in DOMAIN d
GetType(d) == IF Has(d, "type") THEN d.type ELSE "<None>"
Get(d, key) == IF Has(d, key) THEN d[key] ELSE JNull

\* Python truth value of a JSON value (`not x` is its negation)
Truthy(j) ==
    CASE j.t = "null"   -> FALSE
      [] j.t = "number" -> j.v # 0
      [] j.t = "string" -> j.v # ""
      [] j.t = "list"   -> j.v # <<>>

\* isinstance(j, list)
IsList(j) == j.t = "list"

\* the exceptions
Raise(exc, msg) == [exc |-> exc, msg |-> msg]
Raises(r) == r # NoError

\* what a loop over calls raises: the exception of the first call that raises
FirstRaised(outs) ==
    IF \E k \in 1..Len(outs) : Raises(outs[k])
    THEN outs[CHOOSE k \in 1..Len(outs) :
                  /\ Raises(outs[k])
                  /\ \A j \in 1..(k - 1) : ~Raises(outs[j])]
    ELSE NoError

(***************************************************************************)
(* The coordinate validators.  Each takes the JSON list found under        *)
(* "coordinates" and returns the exception it raises, NoError if none.     *)
(***************************************************************************)
_validate_point_coordinates(coordinates) ==
    IF Len(coordinates.v) # 2
    THEN Raise("InvalidGeojsonGeometryError", "Point must have 2 coordinates")
    ELSE NoError

_validate_multipoint_coordinates(coordinates) ==
    FirstRaised([k \in 1..Len(coordinates.v) |->
                    _validate_point_coordinates(coordinates.v[k])])

_validate_linestring_coordinates(coordinates) ==
    IF Len(coordinates.v) < 2
    THEN Raise("InvalidGeojsonGeometryError",
               "LineString must have at least 2 coordinates")
    ELSE FirstRaised([k \in 1..Len(coordinates.v) |->
                         _validate_point_coordinates(coordinates.v[k])])

_validate_multilinestring_coordinates(coordinates) ==
    FirstRaised([k \in 1..Len(coordinates.v) |->
                    _validate_linestring_coordinates(coordinates.v[k])])

\* A plausible slip: the rings are checked one after the other, each for its
\* length and then for its closure.
mutant_validate_polygon_coordinates(coordinates) ==
    FirstRaised([k \in 1..Len(coordinates.v) |->
        LET elem == coordinates.v[k].v
        IN  IF Len(elem) < 4
            THEN Raise("InvalidGeojsonGeometryError",
                       "Polygon must have at least 4 coordinates")
            ELSE IF elem[1] # elem[Len(elem)]
            THEN Raise("InvalidGeojsonGeometryError", "Polygon must be closed")
            ELSE NoError])

\* A plausible slip: only the exterior ring is checked.
mutant_validate_polygon_exterior(coordinates) ==
    LET n == IF Len(coordinates.v) = 0 THEN 0 ELSE 1
        lengths == \A k \in 1..n : Len(coordinates.v[k].v) >= 4
        isring == \A k \in 1..n :
                      LET elem == coordinates.v[k].v
                      IN  elem[1] = elem[Len(elem)]
    IN  IF ~lengths
        THEN Raise("InvalidGeojsonGeometryError",
                   "Polygon must have at least 4 coordinates")
        ELSE IF ~isring
        THEN Raise("InvalidGeojsonGeometryError", "Polygon must be closed")
        ELSE NoError

_validate_polygon_coordinates(coordinates) ==
    LET lengths == \A k \in 1..Len(coordinates.v) :
                       Len(coordinates.v[k].v) >= 4
        isring == \A k \in 1..Len(coordinates.v) :
                      LET elem == coordinates.v[k].v
                      IN  elem[1] = elem[Len(elem)]
    IN  IF ~lengths
        THEN Raise("InvalidGeojsonGeometryError",
                   "Polygon must have at least 4 coordinates")
        ELSE IF ~isring
        THEN Raise("InvalidGeojsonGeometryError", "Polygon must be closed")
        ELSE NoError

_validate_multipolygon_coordinates(coordinates) ==
    FirstRaised([k \in 1..Len(coordinates.v) |->
                    _validate_polygon_coordinates(coordinates.v[k])])

(***************************************************************************)
(* validate_geojson_geometry and its dispatch table.                       *)
(***************************************************************************)
\* Python objects used as dict keys: a str, or the bound method
\* GeometryType.<member>.__str__
PyStr(x) == [py |-> "str", v |-> x]
BoundStr(member) == [py |-> "method", v |-> member]

\* the keys of geometry_validation_map are the bound methods themselves (the
\* code names GeometryType.POINT.__str__ and does not call it)
geometry_validation_map ==
    (BoundStr("GeometryType.POINT") :> "_validate_point_coordinates")
    @@ (BoundStr("GeometryType.MULTIPOINT") :> "_validate_multipoint_coordinates")
    @@ (BoundStr("GeometryType.LINESTRING") :> "_validate_linestring_coordinates")
    @@ (BoundStr("GeometryType.MULTILINESTRING")
            :> "_validate_multilinestring_coordinates")
    @@ (BoundStr("GeometryType.POLYGON") :> "_validate_polygon_coordinates")
    @@ (BoundStr("GeometryType.MULTIPOLYGON")
            :> "_validate_multipolygon_coordinates")

\* str.lower() on the type strings of the model
lower(x) ==
    CASE x = "Point"              -> "point"
      [] x = "MultiPoint"         -> "multipoint"
      [] x = "LineString"         -> "linestring"
      [] x = "MultiLineString"    -> "multilinestring"
      [] x = "Polygon"            -> "polygon"
      [] x = "MultiPolygon"       -> "multipolygon"
      [] x = "GeometryCollection" -> "geometrycollection"
      [] x = "Circle"             -> "circle"
      [] OTHER                    -> x

\* validation_func(coordinates)
validation_func(name, coordinates) ==
    CASE name = "_validate_point_coordinates" ->
             _validate_point_coordinates(coordinates)
      [] name = "_validate_multipoint_coordinates" ->
             _validate_multipoint_coordinates(coordinates)
      [] name = "_validate_linestring_coordinates" ->
             _validate_linestring_coordinates(coordinates)
      [] name = "_validate_multilinestring_coordinates" ->
             _validate_multilinestring_coordinates(coordinates)
      [] name = "_validate_polygon_coordinates" ->
             _validate_polygon_coordinates(coordinates)
      [] name = "_validate_multipolygon_coordinates" ->
             _validate_multipolygon_coordinates(coordinates)

validate_geojson_geometry(geometry) ==
    LET geometry_type == GetType(geometry)
        coordinates == Get(geometry, "coordinates")
    IN  IF ~Has(geometry, "type") \/ geometry_type = ""
        THEN Raise("InvalidGeojsonGeometryError", "No geometry type found")
        ELSE IF ~Truthy(coordinates) \/ ~IsList(coordinates)
        THEN Raise("InvalidGeojsonGeometryError", "No coordinates found")
        ELSE IF PyStr(lower(geometry_type)) \notin DOMAIN geometry_validation_map
        THEN Raise("NotSupportedGeometryTypeError", "Invalid geometry type")
        ELSE IF PyStr(geometry_type) \notin DOMAIN geometry_validation_map
        THEN Raise("KeyError", geometry_type)
        ELSE validation_func(geometry_validation_map[PyStr(geometry_type)],
                             coordinates)

(***************************************************************************)
(* validate_geojson_feature and validate_geojson.  Besides the exception   *)
(* they report how many validators the call entered.                       *)
(***************************************************************************)
\* A plausible slip: the geometry is looked at before the type.
mutant_validate_geojson_feature(feature) ==
    IF Get(feature, "geometry") = JNull
    THEN [raised |-> Raise("InvalidGeojsonFeatureError",
                           "Invalid geojson feature. Must have geometry field"),
          geometry_calls |-> 0]
    ELSE IF GetType(feature) # "Feature"
    THEN [raised |-> Raise("InvalidGeojsonFeatureError",
                           "Invalid geojson feature. Must have 'type' of 'Feature'"),
          geometry_calls |-> 0]
    ELSE [raised |-> validate_geojson_geometry(feature.geometry),
          geometry_calls |-> 1]

validate_geojson_feature(feature) ==
    IF GetType(feature) # "Feature"
    THEN [raised |-> Raise("InvalidGeojsonFeatureError",
                           "Invalid geojson feature. Must have 'type' of 'Feature'"),
          geometry_calls |-> 0]
    ELSE IF Get(feature, "geometry") = JNull
    THEN [raised |-> Raise("InvalidGeojsonFeatureError",
                           "Invalid geojson feature. Must have geometry field"),
          geometry_calls |-> 0]
    ELSE [raised |-> validate_geojson_geometry(feature.geometry),
          geometry_calls |-> 1]

validate_geojson(geojson) ==
    IF GetType(geojson) # "FeatureCollection"
    THEN [raised |-> Raise("InvalidGeojsonError", "Invalid geojson format."),
          calls |-> NoCalls]
    ELSE
      LET features == IF Has(geojson, "features") THEN geojson.features ELSE <<>>
      IN  IF features = <<>>
          THEN [raised |-> Raise("ValueError", "No features found in geojson."),
                calls |-> NoCalls]
          ELSE
            LET outs == [k \in 1..Len(features) |->
                            validate_geojson_feature(features[k])]
                \* the loop stops at the first feature whose validation raises
                last == IF \E k \in 1..Len(features) : Raises(outs[k].raised)
                        THEN CHOOSE k \in 1..Len(features) :
                                 /\ Raises(outs[k].raised)
                                 /\ \A j \in 1..(k - 1) : ~Raises(outs[j].raised)
                        ELSE Len(features)
            IN  [raised |-> outs[last].raised,
                 calls |-> [feature |-> last,
                            geometry |-> SumTo([k \in 1..last |->
                                                   outs[k].geometry_calls], last)]]

(***************************************************************************)
(* The values the validators are called on.                                *)
(***************************************************************************)
\* entries of a position: two numbers and a string
Entries == {JNum(1), JNum(2), JStr("a")}

\* what is handed to _validate_point_coordinates
PointInputs == {JList(x) : x \in SeqsOf(Entries, 0, MaxPointLen)}

\* positions: valid ones, one with three entries, one with a string entry
P11 == JList(<<JNum(1), JNum(1)>>)
P12 == JList(<<JNum(1), JNum(2)>>)
P121 == JList(<<JNum(1), JNum(2), JNum(1)>>)
PA2 == JList(<<JStr("a"), JNum(2)>>)
Positions == {P11, P12, P121, PA2}

\* what is handed to the MultiPoint and to the LineString validator
LineInputs == {JList(x) : x \in SeqsOf(Positions, 0, MaxLineLen)}

\* what is handed to the MultiLineString validator
MemberLines == {JList(x) : x \in SeqsOf(Positions, 1, 2)}
MultiLineInputs == {JList(x) : x \in SeqsOf(MemberLines, 0, MaxLines)}

\* rings of three or four positions, closed or not
Rings == {JList(x) : x \in SeqsOf({P11, P12}, 3, 4)}

\* what is handed to the Polygon validator
PolygonInputs == {JList(x) : x \in SeqsOf(Rings, 0, MaxRings)}

\* what is handed to the MultiPolygon validator
MemberRings == {JList(<<P11, P12, P12, P11>>), JList(<<P11, P12, P11, P12>>),
                JList(<<P11, P12, P11>>), JList(<<P11, P12, P12>>)}
MemberPolygons == {JList(x) : x \in SeqsOf(MemberRings, 1, 2)}
MultiPolygonInputs == {JList(x) : x \in SeqsOf(MemberPolygons, 0, MaxPolygons)}

\* the six supported type strings and others
SupportedTypes == {"Point", "MultiPoint", "LineString", "MultiLineString",
                   "Polygon", "MultiPolygon"}
TypeStrings == SupportedTypes \cup {"GeometryCollection", "Circle", "point", ""}

\* values found under "coordinates"
CoordinateSamples ==
    {JNull, JNum(5), JList(<<>>),
     P12, P121, PA2,
     JList(<<P11, P12>>), JList(<<P12>>), JList(<<P12, P121>>),
     JList(<<JList(<<P11, P12>>)>>), JList(<<JList(<<P12>>)>>),
     JList(<<JList(<<P11, P12, P12, P11>>)>>),
     JList(<<JList(<<P11, P12, P11, P12>>)>>),
     JList(<<JList(<<P11, P12, P11>>)>>),
     JList(<<JList(<<JList(<<P11, P12, P12, P11>>)>>)>>),
     JList(<<JList(<<JList(<<P11, P12, P11, P12>>)>>)>>)}

\* geometry objects: with or without "type", with or without "coordinates"
Geometries ==
    {[type |-> ty, coordinates |-> c] : ty \in TypeStrings, c \in CoordinateSamples}
    \cup {[type |-> ty] : ty \in TypeStrings}
    \cup {[coordinates |-> c] : c \in CoordinateSamples}

\* feature objects: with or without "type", geometry absent, null or present
FeatureTypes == {"Feature", "FeatureCollection"}
Features ==
    {[type |-> ty, geometry |-> g] : ty \in FeatureTypes, g \in Geometries \cup {JNull}}
    \cup {[type |-> ty] : ty \in FeatureTypes}
    \cup {[geometry |-> g] : g \in Geometries \cup {JNull}}

\* the features of the documents
DocumentGeometries ==
    {[type |-> "Point", coordinates |-> P12],
     [type |-> "Point", coordinates |-> P121],
     [type |-> "MultiPoint", coordinates |-> JList(<<P11, P12>>)],
     [type |-> "LineString", coordinates |-> JList(<<P11, P12>>)],
     [type |-> "MultiLineString", coordinates |-> JList(<<JList(<<P11, P12>>)>>)],
     [type |-> "Polygon", coordinates |-> JList(<<JList(<<P11, P12, P12, P11>>)>>)],
     [type |-> "Polygon", coordinates |-> JList(<<JList(<<P11, P12, P11, P12>>)>>)],
     [type |-> "MultiPolygon",
      coordinates |-> JList(<<JList(<<JList(<<P11, P12, P12, P11>>)>>)>>)],
     [type |-> "GeometryCollection", coordinates |-> JList(<<P12>>)],
     [type |-> "Point"],
     [coordinates |-> P12]}
DocumentFeatures ==
    {[type |-> "Feature", geometry |-> g] : g \in DocumentGeometries \cup {JNull}}
    \cup {[type |-> "Feature"], [type |-> "FeatureCollection"],
          [type |-> "FeatureCollection",
           geometry |-> [type |-> "Point", coordinates |-> P12]]}

\* documents: with or without "type", with or without "features"
DocumentTypes == {"FeatureCollection", "Feature"}
Documents ==
    LET lists == SeqsOf(DocumentFeatures, 0, MaxFeatures)
    IN  {[type |-> ty, features |-> f] : ty \in DocumentTypes, f \in lists}
        \cup {[type |-> ty] : ty \in DocumentTypes}
        \cup {[features |-> f] : f \in lists}

Functions ==
    {"validate_geojson", "validate_geojson_feature", "validate_geojson_geometry",
     "_validate_point_coordinates", "_validate_multipoint_coordinates",
     "_validate_linestring_coordinates", "_validate_multilinestring_coordinates",
     "_validate_polygon_coordinates", "_validate_multipolygon_coordinates"}

Inputs(f) ==
    CASE f = "validate_geojson"                      -> Documents
      [] f = "validate_geojson_feature"              -> Features
      [] f = "validate_geojson_geometry"             -> Geometries
      [] f = "_validate_point_coordinates"           -> PointInputs
      [] f = "_validate_multipoint_coordinates"      -> LineInputs
      [] f = "_validate_linestring_coordinates"      -> LineInputs
      [] f = "_validate_multilinestring_coordinates" -> MultiLineInputs
      [] f = "_validate_polygon_coordinates"         -> PolygonInputs
      [] f = "_validate_multipolygon_coordinates"    -> MultiPolygonInputs

(***************************************************************************)
(* The validator as a state machine: one of its functions is called on one *)
(* value; the call returns or raises.                                      *)
(***************************************************************************)
CcwIdle ==
    /\ polygon = Polygon(<<<<0, 0>>, <<6, 0>>, <<6, 6>>, <<0, 6>>, <<0, 0>>>>, <<>>)
    /\ results = <<>>

InitGeojson ==
    /\ CcwIdle
    /\ fn \in Functions
    /\ arg \in Inputs(fn)
    /\ pc = "start"
    /\ raised = NoError
    /\ ret = NoValue
    /\ calls = NoCalls
    /\ ProjectIdle

\* function f is about to run
Called(f) == fn = f /\ pc = "start"

\* the call ends: it raised r or returned value, having entered the feature
\* and geometry validators c times
Finish(r, value, c) ==
    /\ pc' = "done"
    /\ raised' = r
    /\ ret' = IF Raises(r) THEN NoValue ELSE value
    /\ calls' = c
    /\ UNCHANGED <<fn, arg, ccw_vars, log>>

ValidateGeojson ==
    /\ Called("validate_geojson")
    /\ LET out == validate_geojson(arg)
       IN  Finish(out.raised, arg, out.calls)

ValidateGeojsonFeature ==
    /\ Called("validate_geojson_feature")
    /\ LET out == validate_geojson_feature(arg)
       IN  Finish(out.raised, arg,
                  [feature |-> 1, geometry |-> out.geometry_calls])

ValidateGeojsonGeometry ==
    /\ Called("validate_geojson_geometry")
    /\ Finish(validate_geojson_geometry(arg), arg,
              [feature |-> 0, geometry |-> 1])

ValidatePointCoordinates ==
    /\ Called("_validate_point_coordinates")
    /\ Finish(_validate_point_coordinates(arg), JNull, NoCalls)

ValidateMultipointCoordinates ==
    /\ Called("_validate_multipoint_coordinates")
    /\ Finish(_validate_multipoint_coordinates(arg), JNull, NoCalls)

ValidateLinestringCoordinates ==
    /\ Called("_validate_linestring_coordinates")
    /\ Finish(_validate_linestring_coordinates(arg), JNull, NoCalls)

ValidateMultilinestringCoordinates ==
    /\ Called("_validate_multilinestring_coordinates")
    /\ Finish(_validate_multilinestring_coordinates(arg), JNull, NoCalls)

ValidatePolygonCoordinates ==
    /\ Called("_validate_polygon_coordinates")
    /\ Finish(_validate_polygon_coordinates(arg), JNull, NoCalls)

ValidateMultipolygonCoordinates ==
    /\ Called("_validate_multipolygon_coordinates")
    /\ Finish(_validate_multipolygon_coordinates(arg), JNull, NoCalls)

NextGeojson ==
    \/ ValidateGeojson
    \/ ValidateGeojsonFeature
    \/ ValidateGeojsonGeometry
    \/ ValidatePointCoordinates
    \/ ValidateMultipointCoordinates
    \/ ValidateLinestringCoordinates
    \/ ValidateMultilinestringCoordinates
    \/ ValidatePolygonCoordinates
    \/ ValidateMultipolygonCoordinates

SpecGeojson == InitGeojson /\ [][NextGeojson]_vars

(***************************************************************************)
(* Claims about the validator (checked under SpecGeojson).                 *)
(*                                                                         *)
(* The rules of the GeoJSON specification the claims speak of.             *)
(***************************************************************************)
Done(f) == fn = f /\ pc = "done"

ConformingPoint(c) ==
    /\ IsList(c)
    /\ Len(c.v) = 2
    /\ \A k \in 1..Len(c.v) : c.v[k].t = "number"

ConformingMultiPoint(c) ==
    /\ IsList(c)
    /\ \A k \in 1..Len(c.v) : ConformingPoint(c.v[k])

ConformingLineString(c) ==
    /\ IsList(c)
    /\ Len(c.v) >= 2
    /\ \A k \in 1..Len(c.v) : ConformingPoint(c.v[k])

ConformingMultiLineString(c) ==
    /\ IsList(c)
    /\ \A k \in 1..Len(c.v) : ConformingLineString(c.v[k])

\* a ring breaks a rule: fewer than 4 positions, or first position # last
TooShort(ring) == Len(ring.v) < 4
Unclosed(ring) == Len(ring.v) > 0 /\ ring.v[1] # ring.v[Len(ring.v)]
ViolatingRing(ring) == TooShort(ring) \/ Unclosed(ring)

ConformingPolygon(c) ==
    /\ IsList(c)
    /\ \A k \in 1..Len(c.v) :
           /\ IsList(c.v[k])
           /\ \A j \in 1..Len(c.v[k].v) : ConformingPoint(c.v[k].v[j])
           /\ ~ViolatingRing(c.v[k])

ConformingMultiPolygon(c) ==
    /\ IsList(c)
    /\ \A k \in 1..Len(c.v) : ConformingPolygon(c.v[k])

ConformingCoordinates(ty, c) ==
    /\ IsList(c)
    /\ c.v # <<>>
    /\ CASE ty = "Point"           -> ConformingPoint(c)
         [] ty = "MultiPoint"      -> ConformingMultiPoint(c)
         [] ty = "LineString"      -> ConformingLineString(c)
         [] ty = "MultiLineString" -> ConformingMultiLineString(c)
         [] ty = "Polygon"         -> ConformingPolygon(c)
         [] ty = "MultiPolygon"    -> ConformingMultiPolygon(c)

ConformingGeometry(g) ==
    /\ Has(g, "type")
    /\ g.type \in SupportedTypes
    /\ Has(g, "coordinates")
    /\ ConformingCoordinates(g.type, g.coordinates)

ConformingFeature(f) ==
    /\ GetType(f) = "Feature"
    /\ Has(f, "geometry")
    /\ f.geometry # JNull
    /\ ConformingGeometry(f.geometry)

ConformingDocument(d) ==
    /\ GetType(d) = "FeatureCollection"
    /\ Has(d, "features")
    /\ d.features # <<>>
    /\ \A k \in 1..Len(d.features) : ConformingFeature(d.features[k])

\* C4: validate_geojson accepts every conforming document: a
\* FeatureCollection with a non-empty features array whose features all have
\* type "Feature" and a geometry of a supported type with coordinates that
\* satisfy the rules of that type is returned unchanged, and nothing is raised.
C4_AcceptsConformingDocuments ==
    (Done("validate_geojson") /\ ConformingDocument(arg))
        => (raised = NoError /\ ret = arg)

\* C5: validate_geojson raises InvalidGeojsonError when the document's type
\* is missing or not "FeatureCollection" and also when the features array is
\* missing or empty, and in both cases no feature is examined.
C5_TopLevelViolationsRaiseInvalidGeojsonError ==
    (/\ Done("validate_geojson")
     /\ \/ GetType(arg) # "FeatureCollection"
        \/ ~Has(arg, "features")
        \/ arg.features = <<>>)
        => (raised.exc = "InvalidGeojsonError" /\ calls = NoCalls)

\* C6: validate_geojson_feature raises InvalidGeojsonFeatureError when the
\* feature's type is not "Feature" or its geometry is missing or null, without
\* entering the geometry validator; the type is checked before the geometry,
\* so a feature that breaks both rules gets the error of the type rule.
C6_FeatureErrors ==
    Done("validate_geojson_feature") =>
        /\ GetType(arg) # "Feature" =>
               /\ raised = Raise("InvalidGeojsonFeatureError",
                                 "Invalid geojson feature. Must have 'type' of 'Feature'")
               /\ calls.geometry = 0
        /\ (GetType(arg) = "Feature" /\ Get(arg, "geometry") = JNull) =>
               /\ raised = Raise("InvalidGeojsonFeatureError",
                                 "Invalid geojson feature. Must have geometry field")
               /\ calls.geometry = 0

\* a feature with a wrong type and no geometry was rejected
C6_Witness ==
    /\ Done("validate_geojson_feature")
    /\ GetType(arg) = "FeatureCollection"
    /\ ~Has(arg, "geometry")
    /\ raised.exc = "InvalidGeojsonFeatureError"
    /\ calls.geometry = 0

\* C7: validate_geojson_geometry raises InvalidGeojsonGeometryError when the
\* type or the coordinates array is missing; it raises
\* NotSupportedGeometryTypeError only for a type string that is not one of the
\* six supported ones, does raise it for such a type string (given
\* coordinates), and never raises it for one of the six.
C7_GeometryErrors ==
    Done("validate_geojson_geometry") =>
        LET typeMissing == ~Has(arg, "type") \/ arg.type = ""
            coordinatesMissing ==
                \/ ~Has(arg, "coordinates")
                \/ ~IsList(arg.coordinates)
                \/ arg.coordinates.v = <<>>
            unsupported == raised.exc = "NotSupportedGeometryTypeError"
        IN  /\ (typeMissing \/ coordinatesMissing) =>
                   raised.exc = "InvalidGeojsonGeometryError"
            /\ unsupported => (~typeMissing /\ arg.type \notin SupportedTypes)
            /\ (/\ ~typeMissing
                /\ ~coordinatesMissing
                /\ arg.type \notin SupportedTypes) => unsupported
            /\ (~typeMissing /\ arg.type \in SupportedTypes) => ~unsupported

\* the rings the Polygon or MultiPolygon validator was handed
RingsChecked ==
    IF fn = "_validate_polygon_coordinates"
    THEN {arg.v[k] : k \in 1..Len(arg.v)}
    ELSE UNION {{arg.v[k].v[j] : j \in 1..Len(arg.v[k].v)} : k \in 1..Len(arg.v)}

\* C8: the Polygon validator, and the MultiPolygon validator for each member
\* polygon, raises InvalidGeojsonGeometryError if and only if some ring has
\* fewer than 4 positions or a first position that differs from its last one;
\* every ring of every member polygon counts.
C8_PolygonRings ==
    (\/ Done("_validate_polygon_coordinates")
     \/ Done("_validate_multipolygon_coordinates")) =>
        IF \E ring \in RingsChecked : ViolatingRing(ring)
        THEN raised.exc = "InvalidGeojsonGeometryError"
        ELSE raised = NoError /\ ret = JNull

\* a MultiPolygon whose only bad ring is the last ring of its last polygon
C8_Witness ==
    /\ Done("_validate_multipolygon_coordinates")
    /\ Len(arg.v) = 2
    /\ Len(arg.v[2].v) = 2
    /\ \A k \in 1..Len(arg.v[1].v) : ~ViolatingRing(arg.v[1].v[k])
    /\ ~ViolatingRing(arg.v[2].v[1])
    /\ Unclosed(arg.v[2].v[2])
    /\ raised.exc = "InvalidGeojsonGeometryError"

\* C9: the Point validator accepts exactly the lists of exactly 2 numbers,
\* the LineString validator exactly the lists of at least 2 valid Points, the
\* MultiPoint / MultiLineString validator exactly the lists of valid Points /
\* LineStrings; whatever is rejected is rejected with
\* InvalidGeojsonGeometryError.
C9_CoordinateArity ==
    LET Accepts(conforming) ==
            IF conforming
            THEN raised = NoError
            ELSE raised.exc = "InvalidGeojsonGeometryError"
    IN  /\ Done("_validate_point_coordinates") =>
               Accepts(ConformingPoint(arg))
        /\ Done("_validate_multipoint_coordinates") =>
               Accepts(ConformingMultiPoint(arg))
        /\ Done("_validate_linestring_coordinates") =>
               Accepts(ConformingLineString(arg))
        /\ Done("_validate_multilinestring_coordinates") =>
               Accepts(ConformingMultiLineString(arg))

\* the first feature of the document that validate_geojson_feature rejects
\* (0 if it rejects none)
FirstRejected(features) ==
    IF \E k \in 1..Len(features) : Raises(validate_geojson_feature(features[k]).raised)
    THEN CHOOSE k \in 1..Len(features) :
             /\ Raises(validate_geojson_feature(features[k]).raised)
             /\ \A j \in 1..(k - 1) :
                    ~Raises(validate_geojson_feature(features[j]).raised)
    ELSE 0

\* the error of validate_geojson is the error of the first rejected feature,
\* and no feature after that one is examined
FirstFeatureReported ==
    (/\ Done("validate_geojson")
     /\ GetType(arg) = "FeatureCollection"
     /\ Has(arg, "features")
     /\ FirstRejected(arg.features) # 0) =>
        LET k == FirstRejected(arg.features)
        IN  /\ raised = validate_geojson_feature(arg.features[k]).raised
            /\ calls.feature = k

TooShortError ==
    Raise("InvalidGeojsonGeometryError", "Polygon must have at least 4 coordinates")
UnclosedError ==
    Raise("InvalidGeojsonGeometryError", "Polygon must be closed")

Point(xy) == [kind |-> "Point", coords |-> <<xy>>]
LineString(cs) == [kind |-> "LineString", coords |-> cs]
LinearRing(cs) == [kind |-> "LinearRing", coords |-> cs]
PolygonGeometry(shell, holes) == [kind |-> "Polygon"] @@ Polygon(shell, holes)
\* Container("MultiPoint", gs), Container("MultiLineString", gs), Container("MultiPolygon", gs) and
\* Container("GeometryCollection", gs): the container of that kind with the members gs
Container(kind, gs) == [kind |-> kind, geoms |-> gs]

\* type(geometry)
type(g) == g.kind

MultiKinds == {"MultiPoint", "MultiLineString", "MultiPolygon"}
ContainerKinds == MultiKinds \cup {"GeometryCollection"}

\* Python's None
None == [t |-> "None"]

Abs(n) == IF n < 0 THEN 0 - n ELSE n

(***************************************************************************)
(* geometry.centroid.  The centroid is the first moment of the geometry    *)
(* divided by its measure, taken over the parts of highest dimension       *)
(* (areas before curves before points).  It is kept as an exact fraction:  *)
(* the point (mx / w, my / w).  The length of a segment is computed for    *)
(* axis-parallel segments, the only ones among the curves of the model.    *)
(***************************************************************************)
curve_moments(cs) ==
    LET n == Len(cs) - 1
        len == [k \in 1..n |-> Abs(cs[k + 1][1] - cs[k][1])
                                + Abs(cs[k + 1][2] - cs[k][2])]
    IN  [dim |-> 1,
         mx |-> SumTo([k \in 1..n |-> len[k] * (cs[k][1] + cs[k + 1][1])], n),
         my |-> SumTo([k \in 1..n |-> len[k] * (cs[k][2] + cs[k + 1][2])], n),
         w |-> 2 * SumTo(len, n)]

\* first moment of the area enclosed by a ring, times 6, in coordinate c,
\* with the sign of the ring's orientation removed
ring_moment(ring, c) ==
    LET n == Len(ring) - 1
    IN  (IF is_ccw(ring) THEN 1 ELSE 0 - 1)
        * SumTo([k \in 1..n |->
                    (ring[k][c] + ring[k + 1][c])
                    * (ring[k][1] * ring[k + 1][2] - ring[k + 1][1] * ring[k][2])],
                n)

polygon_moments(p) ==
    LET h == Len(p.interiors)
    IN  [dim |-> 2,
         mx |-> ring_moment(p.exterior, 1)
                - SumTo([k \in 1..h |-> ring_moment(p.interiors[k], 1)], h),
         my |-> ring_moment(p.exterior, 2)
                - SumTo([k \in 1..h |-> ring_moment(p.interiors[k], 2)], h),
         w |-> 3 * (Abs(signed_area2(p.exterior))
                    - SumTo([k \in 1..h |-> Abs(signed_area2(p.interiors[k]))], h))]

RECURSIVE moments(_)
moments(g) ==
    CASE type(g) = "Point" ->
            [dim |-> 0, mx |-> g.coords[1][1], my |-> g.coords[1][2], w |-> 1]
      [] type(g) \in {"LineString", "LinearRing"} -> curve_moments(g.coords)
      [] type(g) = "Polygon" -> polygon_moments(g)
      [] OTHER ->
            LET n == Len(g.geoms)
                ms == [k \in 1..n |-> moments(g.geoms[k])]
                top == CHOOSE d \in 0..2 :
                           /\ \E k \in 1..n : ms[k].dim = d
                           /\ \A k \in 1..n : ms[k].dim <= d
                part(k, f) == IF ms[k].dim = top THEN ms[k][f] ELSE 0
            IN  [dim |-> top,
                 mx |-> SumTo([k \in 1..n |-> part(k, "mx")], n),
                 my |-> SumTo([k \in 1..n |-> part(k, "my")], n),
                 w |-> SumTo([k \in 1..n |-> part(k, "w")], n)]

\* geometry.centroid: the point (nx / d, ny / d)
centroid(g) ==
    LET m == moments(g) IN [nx |-> m.mx, ny |-> m.my, d |-> m.w]

(***************************************************************************)
(* pyproj.  The CRS database knows the geographic source CRS, two          *)
(* neighbouring UTM zones, Web Mercator (the default target of             *)
(* reproject.py) and ETRS89-LAEA (the default target of project.py), and   *)
(* a second geographic CRS, NAD83, whose UTM zones do not cover every      *)
(* longitude: between its easternmost zone (23N) and its westernmost       *)
(* (59N) there is none.                                                    *)
(***************************************************************************)
\* pyproj.CRS.from_epsg(epsg).to_dict()
to_dict(epsg) ==
    CASE epsg = 4326  -> [proj |-> "longlat", datum |-> "WGS84"]
      [] epsg = 32631 -> [proj |-> "utm", datum |-> "WGS84"]
      [] epsg = 32632 -> [proj |-> "utm", datum |-> "WGS84"]
      [] epsg = 3857  -> [proj |-> "merc", datum |-> "WGS84"]
      [] epsg = 3035  -> [proj |-> "laea", datum |-> "ETRS89"]
      [] epsg = 4269  -> [proj |-> "longlat", datum |-> "NAD83"]
      [] epsg = 26923 -> [proj |-> "utm", datum |-> "NAD83"]
      [] epsg = 3372  -> [proj |-> "utm", datum |-> "NAD83"]

\* pyproj.CRS.from_epsg(epsg): the CRS defined by the EPSG code
from_epsg(epsg) == [epsg |-> epsg]

\* pyproj.CRS(proj=proj_name, lat_1=lat, lat_2=lat, lat_0=lat, lon_0=lon):
\* a CRS of the family proj_name centred on the point c
CRS(proj_name, c) == [proj |-> proj_name, lat_0 |-> <<c.ny, c.d>>,
                      lon_0 |-> <<c.nx, c.d>>]

\* query_utm_crs_info(datum_name, AreaOfInterest(x, y, x, y), contains=True):
\* the UTM CRSs of the datum whose area of use contains the point c.  The
\* database holds two WGS84 zones and two NAD83 zones with their areas of
\* use; all end at latitude 4, north of it (the polar region) there is no
\* UTM zone, and between the NAD83 zones there is none either.
query_utm_crs_info(datum_name, c) ==
    LET utm_crs_database ==
            <<[code |-> 32631, datum |-> "WGS84",
               west |-> 0, south |-> 0, east |-> 4, north |-> 4],
              [code |-> 32632, datum |-> "WGS84",
               west |-> 4, south |-> 0, east |-> 8, north |-> 4],
              [code |-> 26923, datum |-> "NAD83",
               west |-> 0, south |-> 0, east |-> 2, north |-> 4],
              [code |-> 3372, datum |-> "NAD83",
               west |-> 6, south |-> 0, east |-> 8, north |-> 4]>>
        contains(e) ==
            /\ e.datum = datum_name
            /\ e.west * c.d <= c.nx /\ c.nx <= e.east * c.d
            /\ e.south * c.d <= c.ny /\ c.ny <= e.north * c.d
    IN  SelectSeq(utm_crs_database, contains)

\* pyproj.Transformer.from_crs(source_crs, target_crs, always_xy=True)
from_crs(source_crs, target_crs) == [source |-> source_crs, target |-> target_crs]

\* transformer.transform(x, y): the coordinate in the target CRS.  The
\* projection formulas are not computed: the result names the coordinate and
\* the two CRSs it was converted between.
transform(transformer, xy) ==
    [crs |-> transformer.target, from |-> transformer.source,
     x |-> xy[1], y |-> xy[2]]

(***************************************************************************)
(* What a call produced: the exception it raised or the value it returned, *)
(* and the calls of determine_utm_epsg and create_transformer it made.     *)
(***************************************************************************)
Ok(value, l) == [raised |-> NoError, value |-> value, log |-> l]
Fail(r, l) == [raised |-> r, value |-> NoValue, log |-> l]

UtmCall(source_epsg, c) ==
    [call |-> "determine_utm_epsg", source_epsg |-> source_epsg, at |-> c]
TransformerCall(source_epsg, target_epsg, c) ==
    [call |-> "create_transformer", source_epsg |-> source_epsg,
     target_epsg |-> target_epsg, centroid |-> c]

\* ValueError(f'No UTM CRS found for the datum {datum_name} and bbox')
NoUtmError(datum_name) ==
    Raise("ValueError",
          IF datum_name = "WGS84"
          THEN "No UTM CRS found for the datum WGS84 and bbox"
          ELSE "No UTM CRS found for the datum NAD83 and bbox")
MissingCentroidError ==
    Raise("ValueError", "A centroid must be provided for non-UTM projections")
\* TypeError(f"Unsupported geometry type: {type(geometry)}")
UnsupportedTypeError(geometry) ==
    Raise("TypeError",
          CASE type(geometry) = "LinearRing" ->
                 "Unsupported geometry type: LinearRing"
            [] type(geometry) = "MultiPoint" ->
                 "Unsupported geometry type: MultiPoint"
            [] OTHER -> "Unsupported geometry type: Other")

(***************************************************************************)
(* reproject.py                                                            *)
(***************************************************************************)
\* Two steps of a function body one after the other: an exception in the
\* first ends the function before the second runs, otherwise the function
\* ends as the second does; the calls made add up.
After(first, second) ==
    IF Raises(first.raised)
    THEN Fail(first.raised, first.log)
    ELSE [second EXCEPT !.log = first.log \o @]

\* determine_utm_epsg(source_epsg, x, y, x, y) for the point c
determine_utm_epsg(source_epsg, c) ==
    LET datum_name == to_dict(source_epsg).datum
        utm_crs_info == query_utm_crs_info(datum_name, c)
        l == <<UtmCall(source_epsg, c)>>
    IN  IF utm_crs_info = <<>>
        THEN Fail(NoUtmError(datum_name), l)
        ELSE Ok(utm_crs_info[1].code, l)

is_utm_epsg(epsg) == to_dict(epsg).proj = "utm"

\* A plausible slip: the centroid is demanded for every target.
mutant_create_transformer(source_epsg, target_epsg, c) ==
    LET source_crs == from_epsg(source_epsg)
        l == <<TransformerCall(source_epsg, target_epsg, c)>>
    IN  IF c = None
        THEN Fail(MissingCentroidError, l)
        ELSE IF is_utm_epsg(target_epsg)
             THEN Ok(from_crs(source_crs, from_epsg(target_epsg)), l)
             ELSE Ok(from_crs(source_crs, CRS(to_dict(target_epsg).proj, c)), l)

\* A plausible slip: a supplied centroid re-centres every target, UTM zones
\* included.
mutant_create_transformer_centred(source_epsg, target_epsg, c) ==
    LET source_crs == from_epsg(source_epsg)
        l == <<TransformerCall(source_epsg, target_epsg, c)>>
    IN  IF c # None
        THEN Ok(from_crs(source_crs, CRS(to_dict(target_epsg).proj, c)), l)
        ELSE IF is_utm_epsg(target_epsg)
             THEN Ok(from_crs(source_crs, from_epsg(target_epsg)), l)
             ELSE Fail(MissingCentroidError, l)

create_transformer(source_epsg, target_epsg, c) ==
    LET source_crs == from_epsg(source_epsg)
        l == <<TransformerCall(source_epsg, target_epsg, c)>>
    IN  IF is_utm_epsg(target_epsg)
        THEN Ok(from_crs(source_crs, from_epsg(target_epsg)), l)
        ELSE IF c = None
             THEN Fail(MissingCentroidError, l)
             ELSE Ok(from_crs(source_crs, CRS(to_dict(target_epsg).proj, c)), l)

\* [transformer.transform(*xy) for xy in coords]
transform_all(transformer, coords) ==
    [k \in 1..Len(coords) |-> transform(transformer, coords[k])]

_project_point(point, source_epsg, target_epsg) ==
    LET transformer == create_transformer(source_epsg, target_epsg,
                                          centroid(point))
    IN  After(transformer,
              Ok(Point(transform(transformer.value, point.coords[1])), <<>>))

_project_linestring(linestring, source_epsg, target_epsg) ==
    LET transformer == create_transformer(source_epsg, target_epsg,
                                          centroid(linestring))
    IN  After(transformer,
              Ok(LineString(transform_all(transformer.value, linestring.coords)),
                 <<>>))

_project_linear_ring(linear_ring, source_epsg, target_epsg) ==
    LET transformer == create_transformer(source_epsg, target_epsg,
                                          centroid(linear_ring))
    IN  After(transformer,
              Ok(LinearRing(transform_all(transformer.value, linear_ring.coords)),
                 <<>>))

\* the Polygon rebuilt from its rings sent through the transformer t
transformed_polygon(t, p) ==
    PolygonGeometry(transform_all(t, p.exterior),
                    [k \in 1..Len(p.interiors) |-> transform_all(t, p.interiors[k])])

\* A plausible slip: only the exterior ring is rebuilt.
mutant_project_polygon(p, source_epsg, target_epsg) ==
    LET transformer == create_transformer(source_epsg, target_epsg, centroid(p))
    IN  After(transformer,
              Ok(PolygonGeometry(transform_all(transformer.value, p.exterior),
                                 <<>>),
                 <<>>))

\* A plausible slip: every interior ring gets a transformer of its own,
\* built from the centroid of that ring.
mutant_project_polygon_per_ring(p, source_epsg, target_epsg) ==
    LET transformer == create_transformer(source_epsg, target_epsg, centroid(p))
        own == [k \in 1..Len(p.interiors) |->
                   create_transformer(source_epsg, target_epsg,
                                      centroid(LinearRing(p.interiors[k])))]
    IN  After(transformer,
              Ok(PolygonGeometry(
                     transform_all(transformer.value, p.exterior),
                     [k \in 1..Len(p.interiors) |->
                         transform_all(own[k].value, p.interiors[k])]),
                 [k \in 1..Len(p.interiors) |-> own[k].log[1]]))


_project_polygon(p, source_epsg, target_epsg) ==
    LET transformer == create_transformer(source_epsg, target_epsg, centroid(p))
    IN  After(transformer, Ok(transformed_polygon(transformer.value, p), <<>>))

SimpleKinds == {"Point", "LineString", "LinearRing", "Polygon"}

\* the keys of geom_map
geom_map == SimpleKinds \cup ContainerKinds

\* geom_map[kind] for the four simple kinds
project_simple(g, source_epsg, target_epsg) ==
    CASE type(g) = "Point" -> _project_point(g, source_epsg, target_epsg)
      [] type(g) = "LineString" -> _project_linestring(g, source_epsg, target_epsg)
      [] type(g) = "LinearRing" -> _project_linear_ring(g, source_epsg, target_epsg)
      [] type(g) = "Polygon" -> _project_polygon(g, source_epsg, target_epsg)

RECURSIVE project_geometry_local_utm(_, _)
RECURSIVE local_utm_members(_, _, _)

\* A plausible slip: a member that cannot be projected is left out of the
\* result.
mutant_local_utm_members(geoms, source_epsg, k) ==
    IF k > Len(geoms)
    THEN Ok(<<>>, <<>>)
    ELSE LET head == project_geometry_local_utm(geoms[k], source_epsg)
             rest == local_utm_members(geoms, source_epsg, k + 1)
         IN  IF Raises(head.raised)
             THEN [rest EXCEPT !.log = head.log \o @]
             ELSE After(head, After(rest, Ok(<<head.value>> \o rest.value, <<>>)))

\* [project_geometry_local_utm(g, source_epsg) for g in geoms], from the
\* k-th member on; the first exception ends the comprehension
local_utm_members(geoms, source_epsg, k) ==
    IF k > Len(geoms)
    THEN Ok(<<>>, <<>>)
    ELSE LET head == project_geometry_local_utm(geoms[k], source_epsg)
             rest == local_utm_members(geoms, source_epsg, k + 1)
         IN  After(head, After(rest, Ok(<<head.value>> \o rest.value, <<>>)))

\* A plausible slip: the members of a multi geometry are projected to the
\* UTM zone found for the multi geometry as a whole.
mutant_project_geometry_local_utm(geometry, source_epsg) ==
    LET target_epsg == determine_utm_epsg(source_epsg, centroid(geometry))
        members == local_utm_members(geometry.geoms, source_epsg, 1)
    IN  IF type(geometry) \notin geom_map
        THEN Fail(UnsupportedTypeError(geometry), <<>>)
        ELSE After(target_epsg,
                   IF type(geometry) \in SimpleKinds
                   THEN project_simple(geometry, source_epsg, target_epsg.value)
                   ELSE IF type(geometry) \in MultiKinds
                   THEN Ok(Container(type(geometry),
                                     [k \in 1..Len(geometry.geoms) |->
                                         project_simple(geometry.geoms[k],
                                                        source_epsg,
                                                        target_epsg.value).value]),
                           <<>>)
                   ELSE After(members,
                              Ok(Container(type(geometry), members.value), <<>>)))

project_geometry_local_utm(geometry, source_epsg) ==
    LET target_epsg == determine_utm_epsg(source_epsg, centroid(geometry))
        members == local_utm_members(geometry.geoms, source_epsg, 1)
    IN  IF type(geometry) \notin geom_map
        THEN Fail(UnsupportedTypeError(geometry), <<>>)
        ELSE After(target_epsg,
                   IF type(geometry) \in SimpleKinds
                   THEN project_simple(geometry, source_epsg, target_epsg.value)
                   ELSE After(members,
                              Ok(Container(type(geometry), members.value), <<>>)))

\* the defaults of source_epsg and of project_geometry_equal_area's target_epsg
default_source_epsg == 4326
default_target_epsg == 3857

RECURSIVE project_geometry_equal_area(_, _, _)
RECURSIVE equal_area_members(_, _, _, _)

\* [project_geometry_equal_area(g, source_epsg, target_epsg) for g in geoms]
equal_area_members(geoms, source_epsg, target_epsg, k) ==
    IF k > Len(geoms)
    THEN Ok(<<>>, <<>>)
    ELSE LET head == project_geometry_equal_area(geoms[k], source_epsg,
                                                 target_epsg)
             rest == equal_area_members(geoms, source_epsg, target_epsg, k + 1)
         IN  After(head, After(rest, Ok(<<head.value>> \o rest.value, <<>>)))

\* The dispatch of line 175 is geom_map[type(geometry)](geometry,
\* source_epsg): args holds the arguments after the geometry.  Every entry
\* of the map has the parameters (geometry, source_epsg, target_epsg); a
\* call that leaves one out raises TypeError.  The multi entries ignore
\* their third parameter and use the enclosing call's target_epsg, the
\* GeometryCollection entry passes no target_epsg on to its members.
project_geometry_equal_area(geometry, source_epsg, target_epsg) ==
    LET args == <<source_epsg>>
        members ==
            equal_area_members(geometry.geoms, args[1],
                               IF type(geometry) = "GeometryCollection"
                               THEN default_target_epsg ELSE target_epsg,
                               1)
    IN  IF type(geometry) \notin geom_map
        THEN Fail(UnsupportedTypeError(geometry), <<>>)
        ELSE IF Len(args) < 2
        THEN Fail(Raise("TypeError", "missing 1 required positional argument"),
                  <<>>)
        ELSE IF type(geometry) \in SimpleKinds
        THEN project_simple(geometry, args[1], args[2])
        ELSE After(members, Ok(Container(type(geometry), members.value), <<>>))

(***************************************************************************)
(* project.py, the other variant of the same functions.  The four          *)
(* functions that reproject.py defines under the same name are prefixed    *)
(* with project_py_.                                                       *)
(***************************************************************************)
\* determine_utm_epsg(lon, lat) for the point c; utm_crs_list[0] raises
\* IndexError on an empty list
project_py_determine_utm_epsg(c) ==
    LET utm_crs_list == query_utm_crs_info("WGS84", c)
        l == <<UtmCall(default_source_epsg, c)>>
    IN  IF utm_crs_list = <<>>
        THEN Fail(Raise("IndexError", "list index out of range"), l)
        ELSE Ok(utm_crs_list[1].code, l)

\* Transformer.from_crs(source_crs, target_crs, always_xy=True,
\* area_of_interest=aoi): the area of interest does not change the target CRS
project_py_create_transformer(source_epsg, target_epsg, c) ==
    LET source_crs == from_epsg(source_epsg)
        target_crs == from_epsg(target_epsg)
    IN  Ok(from_crs(source_crs, target_crs) @@ [aoi |-> c],
           <<TransformerCall(source_epsg, target_epsg, c)>>)

\* A plausible slip: the point is projected to its UTM zone instead of the
\* requested target.
mutant_project_point_equal_area(point, source_epsg, target_epsg) ==
    LET utm == project_py_determine_utm_epsg(centroid(point))
        transformer == project_py_create_transformer(source_epsg, utm.value, None)
    IN  After(utm,
              After(transformer,
                    Ok(Point(transform(transformer.value, point.coords[1])),
                       <<>>)))

_project_point_equal_area(point, source_epsg, target_epsg) ==
    LET transformer == project_py_create_transformer(source_epsg, target_epsg,
                                                     None)
    IN  After(transformer,
              Ok(Point(transform(transformer.value, point.coords[1])), <<>>))

_project_polygon_equal_area(p, source_epsg, target_epsg) ==
    LET transformer == project_py_create_transformer(source_epsg, target_epsg,
                                                     None)
    IN  After(transformer, Ok(transformed_polygon(transformer.value, p), <<>>))

_project_linestring_equal_area(linestring, source_epsg, target_epsg) ==
    LET transformer == project_py_create_transformer(source_epsg, target_epsg,
                                                     None)
    IN  After(transformer,
              Ok(LineString(transform_all(transformer.value, linestring.coords)),
                 <<>>))

_project_point_local_utm(point, source_epsg) ==
    LET target_epsg == project_py_determine_utm_epsg(centroid(point))
        transformer == project_py_create_transformer(source_epsg,
                                                     target_epsg.value, None)
    IN  After(target_epsg,
              After(transformer,
                    Ok(Point(transform(transformer.value, point.coords[1])),
                       <<>>)))

_project_polygon_local_utm(p, source_epsg) ==
    LET target_epsg == project_py_determine_utm_epsg(centroid(p))
        transformer == project_py_create_transformer(source_epsg,
                                                     target_epsg.value, None)
    IN  After(target_epsg,
              After(transformer,
                    Ok(transformed_polygon(transformer.value, p), <<>>)))

_project_linestring_local_utm(linestring, source_epsg) ==
    LET target_epsg == project_py_determine_utm_epsg(centroid(linestring))
        transformer == project_py_create_transformer(source_epsg,
                                                     target_epsg.value, None)
    IN  After(target_epsg,
              After(transformer,
                    Ok(LineString(transform_all(transformer.value,
                                                linestring.coords)),
                       <<>>)))

\* the keys of project.py's geom_map: no LinearRing, no MultiPoint
project_py_geom_map ==
    {"Point", "LineString", "Polygon", "MultiLineString", "MultiPolygon",
     "GeometryCollection"}

RECURSIVE project_py_project_geometry_local_utm(_, _)
RECURSIVE project_py_local_utm_members(_, _, _, _)

\* the list comprehension of a multi entry (kind = the multi kind: its
\* members go straight to the _project_*_local_utm function) or of the
\* GeometryCollection entry (its members go through the dispatch)
project_py_local_utm_members(kind, geoms, source_epsg, k) ==
    IF k > Len(geoms)
    THEN Ok(<<>>, <<>>)
    ELSE LET head ==
                 CASE kind = "MultiLineString" ->
                        _project_linestring_local_utm(geoms[k], source_epsg)
                   [] kind = "MultiPolygon" ->
                        _project_polygon_local_utm(geoms[k], source_epsg)
                   [] kind = "GeometryCollection" ->
                        project_py_project_geometry_local_utm(geoms[k],
                                                              source_epsg)
             rest == project_py_local_utm_members(kind, geoms, source_epsg,
                                                  k + 1)
         IN  After(head, After(rest, Ok(<<head.value>> \o rest.value, <<>>)))

project_py_project_geometry_local_utm(geometry, source_epsg) ==
    LET members == project_py_local_utm_members(type(geometry), geometry.geoms,
                                                source_epsg, 1)
    IN  IF type(geometry) \notin project_py_geom_map
        THEN Fail(UnsupportedTypeError(geometry), <<>>)
        ELSE CASE type(geometry) = "Point" ->
                    _project_point_local_utm(geometry, source_epsg)
               [] type(geometry) = "LineString" ->
                    _project_linestring_local_utm(geometry, source_epsg)
               [] type(geometry) = "Polygon" ->
                    _project_polygon_local_utm(geometry, source_epsg)
               [] OTHER ->
                    After(members,
                          Ok(Container(type(geometry), members.value), <<>>))

RECURSIVE project_py_project_geometry_equal_area(_, _, _)
RECURSIVE project_py_equal_area_members(_, _, _, _, _)

project_py_equal_area_members(kind, geoms, source_epsg, target_epsg, k) ==
    IF k > Len(geoms)
    THEN Ok(<<>>, <<>>)
    ELSE LET head ==
                 CASE kind = "MultiLineString" ->
                        _project_linestring_equal_area(geoms[k], source_epsg,
                                                       target_epsg)
                   [] kind = "MultiPolygon" ->
                        _project_polygon_equal_area(geoms[k], source_epsg,
                                                    target_epsg)
                   [] kind = "GeometryCollection" ->
                        project_py_project_geometry_equal_area(
                            geoms[k], source_epsg, target_epsg)
             rest == project_py_equal_area_members(kind, geoms, source_epsg,
                                                   target_epsg, k + 1)
         IN  After(head, After(rest, Ok(<<head.value>> \o rest.value, <<>>)))

project_py_project_geometry_equal_area(geometry, source_epsg, target_epsg) ==
    LET members == project_py_equal_area_members(
                       type(geometry), geometry.geoms, source_epsg,
                       target_epsg, 1)
    IN  IF type(geometry) \notin project_py_geom_map
        THEN Fail(UnsupportedTypeError(geometry), <<>>)
        ELSE CASE type(geometry) = "Point" ->
                    _project_point_equal_area(geometry, source_epsg, target_epsg)
               [] type(geometry) = "LineString" ->
                    _project_linestring_equal_area(geometry, source_epsg,
                                                   target_epsg)
               [] type(geometry) = "Polygon" ->
                    _project_polygon_equal_area(geometry, source_epsg,
                                                target_epsg)
               [] OTHER ->
                    After(members,
                          Ok(Container(type(geometry), members.value), <<>>))

\* the default of project.py's project_geometry_equal_area target_epsg
project_py_default_target_epsg == 3035

(***************************************************************************)
(* geo_helper/area.py.  Its two functions call reproject_geometry and      *)
(* reproject_geometry_local_utm of geo_helper/reproject.py, which is not   *)
(* among the source files: the two dispatchers follow section 4.5 of the   *)
(* specification and use the leaf functions of projecting/reproject.py.    *)
(***************************************************************************)
\* The planar coordinate, in metres, of a transformed coordinate.  The
\* projection formulas are replaced by a scaling that differs from one
\* target CRS to the next, so that an area tells which CRS it was measured
\* in; the factors are even multiples of 1000, which keeps every area a
\* whole number of square kilometres.
projected(p) ==
    LET proj == IF "epsg" \in DOMAIN p.crs
                THEN to_dict(p.crs.epsg).proj ELSE p.crs.proj
        k == CASE proj = "utm" -> IF p.crs.epsg = 32631 THEN 2000 ELSE 4000
               [] proj = "merc" -> 6000
               [] proj = "laea" -> 8000
    IN  <<k * p.x, k * p.y>>

\* the area, in square metres, the ring of transformed coordinates encloses
ring_area(ring) ==
    Abs(signed_area2([k \in 1..Len(ring) |-> projected(ring[k])])) \div 2

RECURSIVE mutant_area(_)
RECURSIVE area(_)

\* A plausible slip: a collection counts only the polygons that are its
\* direct members.
mutant_area_direct(g) ==
    CASE type(g) \in {"Point", "LineString", "LinearRing"} -> 0
      [] type(g) = "Polygon" ->
            ring_area(g.exterior)
            - SumTo([k \in 1..Len(g.interiors) |-> ring_area(g.interiors[k])],
                    Len(g.interiors))
      [] type(g) = "GeometryCollection" ->
            SumTo([k \in 1..Len(g.geoms) |->
                      IF type(g.geoms[k]) = "Polygon"
                      THEN area(g.geoms[k]) ELSE 0],
                  Len(g.geoms))
      [] type(g) \in MultiKinds ->
            SumTo([k \in 1..Len(g.geoms) |-> area(g.geoms[k])], Len(g.geoms))

\* A plausible slip: a LinearRing is measured as the polygon it encloses.
mutant_area(g) ==
    CASE type(g) \in {"Point", "LineString"} -> 0
      [] type(g) = "LinearRing" -> ring_area(g.coords)
      [] type(g) = "Polygon" ->
            ring_area(g.exterior)
            - SumTo([k \in 1..Len(g.interiors) |-> ring_area(g.interiors[k])],
                    Len(g.interiors))
      [] type(g) \in ContainerKinds ->
            SumTo([k \in 1..Len(g.geoms) |-> area(g.geoms[k])], Len(g.geoms))

\* projected_geom.area: points and curves have none, a polygon has the area
\* of its exterior less the areas of its holes, a multi geometry or
\* collection the sum of the areas of its members
area(g) ==
    CASE type(g) \in {"Point", "LineString", "LinearRing"} -> 0
      [] type(g) = "Polygon" ->
            ring_area(g.exterior)
            - SumTo([k \in 1..Len(g.interiors) |-> ring_area(g.interiors[k])],
                    Len(g.interiors))
      [] type(g) \in ContainerKinds ->
            SumTo([k \in 1..Len(g.geoms) |-> area(g.geoms[k])], Len(g.geoms))

\* the results of reprojecting the members of a multi geometry or
\* collection, from the k-th on: the list of the reprojected members, or
\* the failure of the first member that fails
RECURSIVE gathered(_, _)
gathered(outs, k) ==
    IF k > Len(outs)
    THEN Ok(<<>>, <<>>)
    ELSE LET rest == gathered(outs, k + 1)
         IN  After(outs[k], After(rest, Ok(<<outs[k].value>> \o rest.value, <<>>)))

\* reproject_geometry_local_utm: a simple geometry goes to the UTM zone of
\* its centroid, the members of a multi geometry or collection are each
\* reprojected on their own
RECURSIVE reproject_geometry_local_utm(_, _)
reproject_geometry_local_utm(geometry, source_epsg) ==
    LET target_epsg == determine_utm_epsg(source_epsg, centroid(geometry))
        members ==
            gathered([k \in 1..Len(geometry.geoms) |->
                         reproject_geometry_local_utm(geometry.geoms[k],
                                                      source_epsg)], 1)
    IN  IF type(geometry) \in SimpleKinds
        THEN After(target_epsg,
                   project_simple(geometry, source_epsg, target_epsg.value))
        ELSE IF type(geometry) \in ContainerKinds
        THEN After(members, Ok(Container(type(geometry), members.value), <<>>))
        ELSE Fail(UnsupportedTypeError(geometry), <<>>)

\* reproject_geometry: every leaf goes to target_epsg
RECURSIVE reproject_geometry(_, _, _)
reproject_geometry(geometry, source_epsg, target_epsg) ==
    LET members ==
            gathered([k \in 1..Len(geometry.geoms) |->
                         reproject_geometry(geometry.geoms[k], source_epsg,
                                            target_epsg)], 1)
    IN  IF type(geometry) \in SimpleKinds
        THEN project_simple(geometry, source_epsg, target_epsg)
        ELSE IF type(geometry) \in ContainerKinds
        THEN After(members, Ok(Container(type(geometry), members.value), <<>>))
        ELSE Fail(UnsupportedTypeError(geometry), <<>>)

\* projected_geom.area / 1e6
calculate_area_geometry(geometry, source_epsg, target_epsg) ==
    LET projected_geom == reproject_geometry(geometry, source_epsg, target_epsg)
    IN  After(projected_geom,
              Ok(area(projected_geom.value) \div 1000000, <<>>))

calculate_area_geometry_local_utm(geometry, source_epsg) ==
    LET projected_geom == reproject_geometry_local_utm(geometry, source_epsg)
    IN  After(projected_geom,
              Ok(area(projected_geom.value) \div 1000000, <<>>))

(***************************************************************************)
(* The geometries the calls are tried on.  Longitudes run from 0 to 8,     *)
(* UTM zone 31 covers 0..4 and zone 32 covers 4..8; latitudes above 4 are  *)
(* polar.  The simple geometries lie in zone 31, in zone 32, on the border *)
(* of the two and in the polar region.                                     *)
(***************************************************************************)
Square(x, y, side) ==
    <<<<x, y>>, <<x + side, y>>, <<x + side, y + side>>, <<x, y + side>>, <<x, y>>>>

POINT == Point(<<1, 1>>)
POINT_EAST == Point(<<6, 1>>)
POINT_POLAR == Point(<<1, 5>>)
LINESTRING == LineString(<<<<0, 0>>, <<2, 0>>>>)
LINEARRING == LinearRing(Square(0, 0, 2))
POLYGON == PolygonGeometry(Square(0, 0, 2), <<>>)
POLYGON_EAST ==
    PolygonGeometry(Square(5, 0, 3),
                    <<<<<<6, 1>>, <<6, 2>>, <<7, 1>>, <<6, 1>>>>>>)
GEOMETRYCOLLECTION ==
    Container("GeometryCollection",
              <<POINT, LINESTRING, POLYGON,
                Container("MultiPoint", <<POINT>>),
                Container("MultiPolygon", <<POLYGON>>),
                Container("MultiLineString", <<LINESTRING>>)>>)

\* the fourth point lies on the border of the two zones
PointSamples == {POINT, POINT_EAST, POINT_POLAR, Point(<<4, 2>>)}
LineStringSamples ==
    {LINESTRING, LineString(<<<<5, 1>>, <<5, 2>>, <<7, 2>>>>)}
PolygonSamples ==
    {POLYGON, POLYGON_EAST, PolygonGeometry(Square(0, 5, 1), <<>>)}

\* what the collections are made of: simple geometries, multi geometries
\* and a collection
CollectionMembers ==
    {POINT, POINT_POLAR, LineString(<<<<5, 1>>, <<5, 2>>, <<7, 2>>>>),
     LINEARRING, POLYGON_EAST,
     Container("MultiPoint", <<POINT, POINT_EAST>>),
     Container("MultiPolygon", <<POLYGON>>),
     Container("GeometryCollection", <<POINT_EAST>>)}

\* the simple geometries, the multi geometries and the collections with up
\* to MaxMembers members, the collection of the tests, and an object that
\* is no shapely geometry of the eight kinds
ShapelyGeometries ==
    PointSamples \cup LineStringSamples \cup {LINEARRING} \cup PolygonSamples
    \cup {Container("MultiPoint", gs) : gs \in SeqsOf(PointSamples, 1, MaxMembers)}
    \cup {Container("MultiLineString", gs) :
            gs \in SeqsOf(LineStringSamples, 1, MaxMembers)}
    \cup {Container("MultiPolygon", gs) :
            gs \in SeqsOf(PolygonSamples, 1, MaxMembers)}
    \cup {Container("GeometryCollection", gs) :
            gs \in SeqsOf(CollectionMembers, 1, MaxMembers)}
    \cup {GEOMETRYCOLLECTION}
    \cup {[kind |-> "Other"]}

TargetEpsgs ==
    {32631, 32632, default_target_epsg, project_py_default_target_epsg}

ProjectFunctions ==
    {"determine_utm_epsg", "create_transformer",
     "project_geometry_local_utm", "project_geometry_equal_area",
     "project_py_determine_utm_epsg", "project_py_create_transformer",
     "project_py_project_geometry_local_utm",
     "project_py_project_geometry_equal_area",
     "calculate_area_geometry", "calculate_area_geometry_local_utm"}

ProjectInputs(f) ==
    CASE f \in {"determine_utm_epsg", "project_py_determine_utm_epsg"} ->
            \* the points of the grid, polar ones included
            [source_epsg : {default_source_epsg, 4269},
             at : {[nx |-> x, ny |-> y, d |-> 1] : x \in 0..8, y \in 0..5}]
      [] f \in {"create_transformer", "project_py_create_transformer"} ->
            \* without a centroid and with the centroid of a geometry
            [source_epsg : {default_source_epsg}, target_epsg : TargetEpsgs,
             centroid : {None} \cup {centroid(g) : g \in {POINT, POINT_EAST, POLYGON_EAST}}]
      [] f \in {"project_geometry_local_utm",
                "project_py_project_geometry_local_utm",
                "calculate_area_geometry_local_utm"} ->
            \* in WGS84 and in NAD83
            [geometry : ShapelyGeometries,
             source_epsg : {default_source_epsg, 4269}]
      [] f \in {"project_geometry_equal_area",
                "project_py_project_geometry_equal_area",
                "calculate_area_geometry"} ->
            [geometry : ShapelyGeometries, source_epsg : {default_source_epsg},
             target_epsg : TargetEpsgs]

(***************************************************************************)
(* The reprojection functions as a state machine: one of them is called    *)
(* on one input; the call returns or raises.                               *)
(***************************************************************************)
InitProject ==
    /\ CcwIdle
    /\ fn \in ProjectFunctions
    /\ arg \in ProjectInputs(fn)
    /\ pc = "start"
    /\ raised = NoError
    /\ ret = NoValue
    /\ calls = NoCalls
    /\ log = <<>>

\* A plausible slip: project_geometry_local_utm takes the members out of the
\* collection it was given while it projects them.
mutant_return_consuming(out) ==
    /\ pc' = "done"
    /\ raised' = out.raised
    /\ ret' = out.value
    /\ log' = out.log
    /\ arg' = IF /\ fn = "project_geometry_local_utm"
                 /\ type(arg.geometry) \in ContainerKinds
              THEN [arg EXCEPT !.geometry.geoms = <<>>]
              ELSE arg
    /\ UNCHANGED <<fn, calls, ccw_vars>>

\* the call ends with the outcome out
Return(out) ==
    /\ pc' = "done"
    /\ raised' = out.raised
    /\ ret' = out.value
    /\ log' = out.log
    /\ UNCHANGED <<fn, arg, calls, ccw_vars>>

DetermineUtmEpsg ==
    /\ Called("determine_utm_epsg")
    /\ Return(determine_utm_epsg(arg.source_epsg, arg.at))

CreateTransformer ==
    /\ Called("create_transformer")
    /\ Return(create_transformer(arg.source_epsg, arg.target_epsg, arg.centroid))

ProjectGeometryLocalUtm ==
    /\ Called("project_geometry_local_utm")
    /\ Return(project_geometry_local_utm(arg.geometry, arg.source_epsg))

ProjectGeometryEqualArea ==
    /\ Called("project_geometry_equal_area")
    /\ Return(project_geometry_equal_area(arg.geometry, arg.source_epsg,
                                          arg.target_epsg))

ProjectPyDetermineUtmEpsg ==
    /\ Called("project_py_determine_utm_epsg")
    /\ Return(project_py_determine_utm_epsg(arg.at))

ProjectPyCreateTransformer ==
    /\ Called("project_py_create_transformer")
    /\ Return(project_py_create_transformer(arg.source_epsg, arg.target_epsg,
                                            arg.centroid))

ProjectPyProjectGeometryLocalUtm ==
    /\ Called("project_py_project_geometry_local_utm")
    /\ Return(project_py_project_geometry_local_utm(arg.geometry,
                                                    arg.source_epsg))

ProjectPyProjectGeometryEqualArea ==
    /\ Called("project_py_project_geometry_equal_area")
    /\ Return(project_py_project_geometry_equal_area(
                  arg.geometry, arg.source_epsg, arg.target_epsg))

CalculateAreaGeometry ==
    /\ Called("calculate_area_geometry")
    /\ Return(calculate_area_geometry(arg.geometry, arg.source_epsg,
                                      arg.target_epsg))

CalculateAreaGeometryLocalUtm ==
    /\ Called("calculate_area_geometry_local_utm")
    /\ Return(calculate_area_geometry_local_utm(arg.geometry, arg.source_epsg))

NextProject ==
    \/ CalculateAreaGeometry
    \/ CalculateAreaGeometryLocalUtm
    \/ DetermineUtmEpsg
    \/ CreateTransformer
    \/ ProjectGeometryLocalUtm
    \/ ProjectGeometryEqualArea
    \/ ProjectPyDetermineUtmEpsg
    \/ ProjectPyCreateTransformer
    \/ ProjectPyProjectGeometryLocalUtm
    \/ ProjectPyProjectGeometryEqualArea

SpecProject == InitProject /\ [][NextProject]_vars

(***************************************************************************)
(* Claims about the reprojection functions (checked under SpecProject).    *)
(***************************************************************************)
LocalUtmFunctions ==
    {"project_geometry_local_utm", "project_py_project_geometry_local_utm"}
EqualAreaFunctions ==
    {"project_geometry_equal_area", "project_py_project_geometry_equal_area"}

\* the call of one of the functions fs has ended
Ended(fs) == pc = "done" /\ fn \in fs
\* ... by returning
Returned(fs) == Ended(fs) /\ ~Raises(raised)

\* the projected coordinate sequence rs is the coordinate sequence cs,
\* coordinate by coordinate in the same order
SameCoordinates(cs, rs) ==
    /\ Len(rs) = Len(cs)
    /\ \A k \in 1..Len(cs) : rs[k].x = cs[k][1] /\ rs[k].y = cs[k][2]

RECURSIVE SameStructure(_, _)
SameStructure(g, r) ==
    /\ type(r) = type(g)
    /\ CASE type(g) \in {"Point", "LineString", "LinearRing"} ->
              SameCoordinates(g.coords, r.coords)
         [] type(g) = "Polygon" ->
              /\ SameCoordinates(g.exterior, r.exterior)
              /\ Len(r.interiors) = Len(g.interiors)
              /\ \A k \in 1..Len(g.interiors) :
                     SameCoordinates(g.interiors[k], r.interiors[k])
         [] type(g) \in ContainerKinds ->
              /\ Len(r.geoms) = Len(g.geoms)
              /\ \A k \in 1..Len(g.geoms) : SameStructure(g.geoms[k], r.geoms[k])
         [] OTHER -> FALSE

\* C11: when project_geometry_local_utm returns, the result has the kind of
\* the input at every node, as many members in the same order at every
\* multi geometry and collection (through nested collections), as many
\* rings per polygon and as many coordinates per ring and line, in the
\* same order.
C11_StructurePreserved ==
    Returned(LocalUtmFunctions) => SameStructure(arg.geometry, ret)

\* a collection holding a polygon with a hole and a nested collection came back
C11_Witness ==
    /\ Returned({"project_geometry_local_utm"})
    /\ arg.geometry =
           Container("GeometryCollection", <<POLYGON_EAST, Container("GeometryCollection", <<POINT_EAST>>)>>)
    /\ Len(ret.geoms[1].interiors) = 1

\* what the called function produces for g alone, the other arguments
\* being those of the call
Alone(g) ==
    CASE fn = "project_geometry_local_utm" ->
            project_geometry_local_utm(g, arg.source_epsg)
      [] fn = "project_py_project_geometry_local_utm" ->
            project_py_project_geometry_local_utm(g, arg.source_epsg)
      [] fn = "project_geometry_equal_area" ->
            project_geometry_equal_area(g, arg.source_epsg, arg.target_epsg)
      [] fn = "project_py_project_geometry_equal_area" ->
            project_py_project_geometry_equal_area(g, arg.source_epsg,
                                                   arg.target_epsg)

\* the CRSs the coordinates of the projected simple geometry r are in
CrsOf(r) ==
    IF type(r) = "Polygon"
    THEN {r.exterior[k].crs : k \in 1..Len(r.exterior)}
         \cup UNION {{r.interiors[h][k].crs : k \in 1..Len(r.interiors[h])} :
                       h \in 1..Len(r.interiors)}
    ELSE {r.coords[k].crs : k \in 1..Len(r.coords)}

\* the UTM zone the catalog gives first for the centroid of g, in the datum
\* the variant asks for: reproject.py asks for the datum of source_epsg,
\* project.py always for WGS84
OwnZone(g) ==
    from_epsg(query_utm_crs_info(
                  IF fn = "project_py_project_geometry_local_utm"
                  THEN "WGS84" ELSE to_dict(arg.source_epsg).datum,
                  centroid(g))[1].code)

\* C12: when project_geometry_local_utm returns for a MultiPoint,
\* MultiLineString or MultiPolygon, member i of the result is what
\* project_geometry_local_utm returns for member i alone, and all its
\* coordinates are in the UTM zone of that member's own centroid.
C12_PerChildCrs ==
    (Returned(LocalUtmFunctions) /\ type(arg.geometry) \in MultiKinds)
        => \A i \in 1..Len(arg.geometry.geoms) :
               LET alone == Alone(arg.geometry.geoms[i])
               IN  /\ ~Raises(alone.raised)
                   /\ ret.geoms[i] = alone.value
                   /\ CrsOf(ret.geoms[i]) = {OwnZone(arg.geometry.geoms[i])}

\* a multi polygon with members in two different zones came back, each
\* member in its own zone
C12_Witness ==
    /\ Returned({"project_geometry_local_utm"})
    /\ arg.geometry = Container("MultiPolygon", <<POLYGON, POLYGON_EAST>>)
    /\ CrsOf(ret.geoms[1]) # CrsOf(ret.geoms[2])

\* the eight kinds the documentation of both functions promises to support
SupportedKinds ==
    {"Point", "LineString", "LinearRing", "Polygon", "MultiPoint",
     "MultiLineString", "MultiPolygon", "GeometryCollection"}

ProjectionFunctions == LocalUtmFunctions \cup EqualAreaFunctions

\* C13: project_geometry_local_utm and project_geometry_equal_area raise
\* TypeError for every geometry whose kind is not one of the eight supported
\* kinds, before any CRS lookup or transformer construction, and never
\* raise TypeError for a geometry of a supported kind.
C13_TypeErrorIffUnsupported ==
    Ended(ProjectionFunctions)
        => IF type(arg.geometry) \in SupportedKinds
           THEN raised.exc # "TypeError"
           ELSE raised.exc = "TypeError" /\ log = <<>>

\* the nodes below the root of the geometry tree g
RECURSIVE Descendants(_)
Descendants(g) ==
    IF type(g) \in ContainerKinds
    THEN UNION {{g.geoms[k]} \cup Descendants(g.geoms[k]) : k \in 1..Len(g.geoms)}
    ELSE {}

Leaves(g) == {n \in Descendants(g) : type(n) \notin ContainerKinds}

FailsAlone(g) == Raises(Alone(g).raised)

\* the two functions of reproject.py
ReprojectFunctions ==
    {"project_geometry_local_utm", "project_geometry_equal_area"}

\* C14: if the CRS lookup, the transformer construction or the transform
\* fails for a leaf of a multi geometry or (nested) collection, the whole
\* project_geometry_local_utm / project_geometry_equal_area call of
\* reproject.py fails: it returns no geometry, and the error it raises is
\* the error a part of the tree raises when projected alone, not a wrapped
\* or replaced one.
C14_AllOrNothing ==
    (Ended(ReprojectFunctions)
     /\ type(arg.geometry) \in ContainerKinds
     /\ \E leaf \in Leaves(arg.geometry) : FailsAlone(leaf))
        => /\ Raises(raised)
           /\ ret = NoValue
           /\ \E n \in Descendants(arg.geometry) :
                  FailsAlone(n) /\ raised = Alone(n).raised

\* the second member of a collection has no UTM zone: the call raised the
\* lookup's error although the first member had been projected
C14_Witness ==
    /\ Ended({"project_geometry_local_utm"})
    /\ arg.geometry = Container("GeometryCollection", <<POINT, POINT_POLAR>>)
    /\ raised = NoUtmError("WGS84")
    /\ Len(log) > 2

\* the leaves of the geometry tree g (g itself if it is a simple geometry),
\* in the order of the tree
RECURSIVE LeafSeq(_, _)
LeafSeq(gs, k) ==
    IF k > Len(gs)
    THEN <<>>
    ELSE (IF type(gs[k]) \in ContainerKinds
          THEN LeafSeq(gs[k].geoms, 1)
          ELSE <<gs[k]>>) \o LeafSeq(gs, k + 1)

IsUtmCall(e) == e.call = "determine_utm_epsg"

\* the calls of determine_utm_epsg made during the call
UtmCalls == SelectSeq(log, IsUtmCall)

\* C15: during one project_geometry_local_utm call of reproject.py,
\* determine_utm_epsg is called exactly once for each leaf of the tree (on
\* the leaf's centroid, in the order of the tree) and never for a multi
\* geometry or collection node; for the collection of three simple and
\* three single-member multi geometries that makes 6 calls.
C15_OneUtmCallPerLeaf ==
    Returned({"project_geometry_local_utm"})
        => LET leaves == LeafSeq(<<arg.geometry>>, 1)
           IN  /\ Len(UtmCalls) = Len(leaves)
               /\ \A k \in 1..Len(leaves) : UtmCalls[k].at = centroid(leaves[k])
               /\ arg.geometry = GEOMETRYCOLLECTION => Len(UtmCalls) = 6

\* C16: project_geometry_equal_area never calls determine_utm_epsg,
\* whatever the geometry tree and whether it returns or raises.
C16_EqualAreaNeverResolvesUtm ==
    Ended(EqualAreaFunctions) => UtmCalls = <<>>

\* a nested collection was projected: transformers were built, no UTM zone
\* was looked up
C16_Witness ==
    /\ Returned({"project_py_project_geometry_equal_area"})
    /\ arg.geometry =
           Container("GeometryCollection", <<POINT, Container("GeometryCollection", <<POINT_EAST>>)>>)
    /\ Len(log) = 2
    /\ UtmCalls = <<>>

\* C17: project_geometry_equal_area (reproject.py) called with its default
\* source_epsg and target_epsg on a geometry of a supported kind returns,
\* without raising, a geometry of the same kind, with as many members if
\* the kind is a multi geometry or a collection.
C17_EqualAreaDefaultsKeepKind ==
    (Ended({"project_geometry_equal_area"})
     /\ arg.source_epsg = default_source_epsg
     /\ arg.target_epsg = default_target_epsg
     /\ type(arg.geometry) \in SupportedKinds)
        => /\ ~Raises(raised)
           /\ type(ret) = type(arg.geometry)
           /\ type(ret) \in ContainerKinds
                  => Len(ret.geoms) = Len(arg.geometry.geoms)

\* the catalog's answer for the point the resolver was asked about
CatalogAnswer == query_utm_crs_info(to_dict(arg.source_epsg).datum, arg.at)

\* C18: determine_utm_epsg (either variant) returns the code of the first
\* entry of the catalog's result list when the list is not empty; when the
\* catalog has no match it returns nothing and raises ValueError, no other
\* kind of error.
C18_FirstEntryOrValueError ==
    Ended({"determine_utm_epsg", "project_py_determine_utm_epsg"})
        => IF CatalogAnswer # <<>>
           THEN ~Raises(raised) /\ ret = CatalogAnswer[1].code
           ELSE Raises(raised) /\ raised.exc = "ValueError"

\* the target CRS is one of a UTM zone
UtmTarget == to_dict(arg.target_epsg).proj = "utm"

\* C19: create_transformer (reproject.py) raises the missing-centroid
\* ValueError exactly when the target is not a UTM zone (the targets it
\* centres on the centroid) and no centroid was supplied: never for a UTM
\* target, never when a centroid was supplied.
C19_MissingCentroidIffParametric ==
    Ended({"create_transformer"})
        => (raised = MissingCentroidError
                <=> (~UtmTarget /\ arg.centroid = None))

\* Web Mercator without centroid was refused
C19_Witness ==
    /\ Ended({"create_transformer"})
    /\ arg.target_epsg = default_target_epsg
    /\ arg.centroid = None
    /\ raised = MissingCentroidError

CreateTransformerFunctions ==
    {"create_transformer", "project_py_create_transformer"}

AreaFunctions == {"calculate_area_geometry", "calculate_area_geometry_local_utm"}

\* the reprojection the area call in progress delegates to
Reprojection ==
    IF fn = "calculate_area_geometry"
    THEN reproject_geometry(arg.geometry, arg.source_epsg, arg.target_epsg)
    ELSE reproject_geometry_local_utm(arg.geometry, arg.source_epsg)

ZeroAreaKinds ==
    {"Point", "LineString", "LinearRing", "MultiPoint", "MultiLineString"}

\* C21: calculate_area_geometry and calculate_area_geometry_local_utm
\* return exactly 0, and do not raise, for every Point, LineString,
\* LinearRing, MultiPoint and MultiLineString whose reprojection succeeds.
C21_ZeroArea ==
    (/\ Ended(AreaFunctions)
     /\ type(arg.geometry) \in ZeroAreaKinds
     /\ ~Raises(Reprojection.raised))
    => (~Raises(raised) /\ ret = 0)

\* a ring and a multi geometry of two lines were measured
C21_Witness ==
    /\ Returned(AreaFunctions)
    /\ \/ arg.geometry = LINEARRING
       \/ /\ type(arg.geometry) = "MultiLineString"
          /\ Len(arg.geometry.geoms) = 2
    /\ ret = 0

\* the same area calculator applied to the geometry g alone
AreaAlone(g) ==
    IF fn = "calculate_area_geometry"
    THEN calculate_area_geometry(g, arg.source_epsg, arg.target_epsg)
    ELSE calculate_area_geometry_local_utm(g, arg.source_epsg)

\* C22: for a GeometryCollection the area calculator returns the sum of
\* the areas the same calculator returns for each member alone, in the
\* fixed-target and in the local-UTM mode.
C22_CollectionAreaIsSum ==
    (Returned(AreaFunctions) /\ type(arg.geometry) = "GeometryCollection")
    => /\ \A k \in 1..Len(arg.geometry.geoms) :
              ~Raises(AreaAlone(arg.geometry.geoms[k]).raised)
       /\ ret = SumTo([k \in 1..Len(arg.geometry.geoms) |->
                          AreaAlone(arg.geometry.geoms[k]).value],
                      Len(arg.geometry.geoms))

\* the collection of the tests was measured: the polygon and the
\* multi polygon in it have an area, the other four members have none
C22_Witness ==
    /\ Returned(AreaFunctions)
    /\ arg.geometry = GEOMETRYCOLLECTION
    /\ ret = 2 * AreaAlone(POLYGON).value
    /\ ret > 0

(***************************************************************************)
(* Further claims about the reprojection functions (checked under          *)
(* SpecProject).                                                           *)
(***************************************************************************)
IsTransformerCall(e) == e.call = "create_transformer"

\* the calls of create_transformer made during the call
TransformerCalls == SelectSeq(log, IsTransformerCall)

\* C23: a Polygon is reprojected under one CRS decision: the UTM zone is
\* resolved once, from the polygon's own centroid, exactly one transformer
\* is built, and every coordinate of the exterior ring and of every interior
\* ring of the result is in the target CRS of that one transformer.
C23_OneTransformerPerPolygon ==
    (Returned(LocalUtmFunctions) /\ type(arg.geometry) = "Polygon")
    => /\ Len(UtmCalls) = 1
       /\ UtmCalls[1].at = centroid(arg.geometry)
       /\ Len(TransformerCalls) = 1
       /\ TransformerCalls[1].target_epsg = OwnZone(arg.geometry).epsg
       /\ fn = "project_geometry_local_utm"
              => TransformerCalls[1].centroid = centroid(arg.geometry)
       /\ CrsOf(ret) = {from_epsg(TransformerCalls[1].target_epsg)}
       /\ SameStructure(arg.geometry, ret)

\* a polygon with a hole was reprojected
C23_Witness ==
    /\ Returned(LocalUtmFunctions)
    /\ type(arg.geometry) = "Polygon"
    /\ Len(arg.geometry.interiors) > 0
    /\ Len(ret.interiors) = Len(arg.geometry.interiors)

\* the members of the geometry of the call that fail when projected alone
FailingChildren ==
    {k \in 1..Len(arg.geometry.geoms) : FailsAlone(arg.geometry.geoms[k])}

\* the first of them in input order
FirstFailingChild == CHOOSE k \in FailingChildren : \A j \in FailingChildren : k <= j

\* C24: when children of a multi geometry or collection fail,
\* project_geometry_local_utm raises the error of the first failing child in
\* input order and returns nothing; when it returns, the children of the
\* result are the projected children in input order.
C24_FirstFailureInOrder ==
    (Ended(LocalUtmFunctions) /\ type(arg.geometry) \in ContainerKinds)
    => IF FailingChildren # {}
       THEN /\ raised = Alone(arg.geometry.geoms[FirstFailingChild]).raised
            /\ ret = NoValue
       ELSE ~Raises(raised)
            => /\ Len(ret.geoms) = Len(arg.geometry.geoms)
               /\ \A k \in 1..Len(arg.geometry.geoms) :
                      ret.geoms[k] = Alone(arg.geometry.geoms[k]).value

\* the catalog has a UTM zone for the centroid of g, in the datum the
\* variant asks for
Resolves(g) ==
    query_utm_crs_info(IF fn = "project_py_project_geometry_local_utm"
                       THEN "WGS84" ELSE to_dict(arg.source_epsg).datum,
                       centroid(g)) # <<>>

\* C26: project_geometry_local_utm returns for a multi geometry or
\* collection whenever every leaf of it resolves to a UTM zone; the
\* centroid of the multi geometry or collection itself needs none.
C26_LeavesResolveSuffices ==
    (/\ Ended(LocalUtmFunctions)
     /\ type(arg.geometry) \in ContainerKinds
     /\ \A leaf \in Leaves(arg.geometry) : Resolves(leaf))
    => ~Raises(raised)

\* C27: the target_epsg passed to project_geometry_equal_area is the target
\* of every leaf of the tree: the call on a geometry of the supported kinds
\* returns, one transformer is built per leaf (leaves of multi geometries
\* and of nested collections included), and each is built for the caller's
\* target_epsg, never for the default target.
C27_CallerTargetForEveryLeaf ==
    (/\ Ended(EqualAreaFunctions)
     /\ \A n \in {arg.geometry} \cup Descendants(arg.geometry) :
            type(n) \in SupportedKinds)
    => /\ ~Raises(raised)
       /\ Len(TransformerCalls) = Len(LeafSeq(<<arg.geometry>>, 1))
       /\ \A k \in 1..Len(TransformerCalls) :
              TransformerCalls[k].target_epsg = arg.target_epsg

(***************************************************************************)
(* The three components side by side: a run calls the ring normalizer, a   *)
(* validator or a reprojection / area function.                            *)
(***************************************************************************)
SpecModules ==
    /\ InitCcw \/ InitGeojson \/ InitProject
    /\ [][(fn = "none" /\ NextCcw) \/ NextGeojson \/ NextProject]_vars

====
